---- MODULE Spec2Model ----
(***************************************************************************)
(* Model of assets/scripts/main.js: the type-ahead search widget.          *)
(*                                                                         *)
(* The page is single threaded: every event (an input event, a timer that  *)
(* fires, a readystatechange of an XMLHttpRequest, a click) runs its       *)
(* handler to completion.  One action below is one such handler, with      *)
(* every call the handler makes.                                           *)
(***************************************************************************)
EXTENDS Integers, Sequences, FiniteSets, TLC

(***************************************************************************)
(* Program constants.                                                      *)
(***************************************************************************)
MIN_TERM_LENGTH == 3
MAX_RESULTS == 5
DEBOUNCE_TIME == 250

(***************************************************************************)
(* Bounds of the model.                                                    *)
(***************************************************************************)
\* Largest number of raw records in one provider response.
MaxRecords == 7
\* Largest number of input events inside one debounce window.
MaxBurst == 3
\* Largest value of the wall clock read by `new Date()`.
MaxNow == 1
\* Milliseconds that pass in one Tick.
TickMs == 125

\* Largest number of entries of a history list given to remove directly.
MaxEntries == 3

\* `null` / `undefined` for a handle or a timer id.
Null == 0

\* Values the user can leave in the input element.
Terms == {"", "ab", "abc", "abcd"}

\* Raw records of the provider (distinct ones, so that order shows).
Catalog ==
  <<[artistName |-> "A", trackName |-> "T1"],
    [artistName |-> "B", trackName |-> "T2"]>>

\* The i-th record of a provider response (the catalogue, repeated).
RecordAt(i) == Catalog[((i - 1) % Len(Catalog)) + 1]

\* data.results of the possible responses: every length 0..MaxRecords.
Responses == { [i \in 1..n |-> RecordAt(i)] : n \in 0..MaxRecords }

\* Titles searchHistory.add and searchHistory.remove are called with.
Titles == {"A - T1", "B - T2", "C - T3"}

VARIABLES
  inputValue,    \* inputElement.value
  timeout,       \* Helpers.debounce: the closure's `timeout` (a timer id or Null)
  timers,        \* timers scheduled by setTimeout and not yet fired or cleared
  burst,         \* number of debounced calls since the callback last ran
  request,       \* iTunesApi: the closure's `request` (a request id or Null)
  xhrs,          \* XMLHttpRequests sent and not yet DONE
  resultsData,   \* searchResults.data
  currentTerm,   \* the value the change handler last ran with
  response,      \* the response the success callback handled in the last step
  historyData,   \* searchHistory.data
  now,           \* the wall clock
  lastEvent,     \* the event handled by the last step
  trace          \* the calls the last handler made, in order

vars == <<inputValue, timeout, timers, burst, request, xhrs, resultsData,
          currentTerm, response, historyData, now, lastEvent, trace>>

debounceVars == <<timeout, timers, burst>>
sessionVars == <<request, xhrs>>
resultVars == <<resultsData, currentTerm>>
historyVars == <<historyData>>

(***************************************************************************)
(* The event a step handles: its name, its argument (the value of the      *)
(* input, the event a timer was scheduled with, the term of a request, a   *)
(* title) and, for a timer, the number n of debounced calls it answers.    *)
(***************************************************************************)
Event(name, arg, n) == [name |-> name, arg |-> arg, n |-> n]

(***************************************************************************)
(* A response as the success callback sees it: the request it settles (id, *)
(* term), data.results as the provider delivered it (delivered) and        *)
(* data.results when the callback has returned (results).  The object is   *)
(* dropped with its request, so later steps hold NoResponse.               *)
(***************************************************************************)
NoResponse == [id |-> Null, term |-> "", delivered |-> <<>>, results |-> <<>>]

Min(a, b) == IF a < b THEN a ELSE b
Max(a, b) == IF a > b THEN a ELSE b

\* An id no object of S uses.
FreshId(S) == CHOOSE n \in 1..(Cardinality(S) + 1) : n \notin { x.id : x \in S }

Contains(s, e) == \E i \in 1..Len(s) : s[i] = e

(***************************************************************************)
(* Array.prototype.splice(start, deleteCount), start 0-based: the removed  *)
(* elements (its return value) and the array it leaves behind.             *)
(***************************************************************************)
SpliceRemoved(arr, start, deleteCount) ==
  SubSeq(arr, start + 1, Min(start + deleteCount, Len(arr)))

SpliceRemaining(arr, start, deleteCount) ==
  SubSeq(arr, 1, Min(start, Len(arr))) \o SubSeq(arr, start + deleteCount + 1, Len(arr))

(***************************************************************************)
(* Helpers.debounce (lines 14-24).  A timer is [id, args, remaining]:      *)
(* args is the event the debounced function was called with (named by the *)
(* value the input held when it was dispatched), remaining the time left   *)
(* before the timer is due.                                                *)
(***************************************************************************)
\* Fault: the debounced function does not clear the timer it scheduled before.
ClearTimeoutNothing(ts, id) == ts

\* clearTimeout(id): a no-op for an id that names no scheduled timer.
ClearTimeout(ts, id) == { t \in ts : t.id # id }

\* setTimeout(function, time): the timer that is scheduled.
SetTimeout(ts, args, time) ==
  [id |-> FreshId(ts), args |-> args, remaining |-> time]

(***************************************************************************)
(* The handlers of the `load` listener (lines 353-378).                    *)
(***************************************************************************)
\* Fault: only the empty value counts as too short.
TooShortEmptyOnly(value) == value = ""

\* `!value || value.length < MIN_TERM_LENGTH`
TooShort(value) == value = "" \/ Len(value) < MIN_TERM_LENGTH

\* result.artistName + ' - ' + result.trackName
Format(result) == result.artistName \o " - " \o result.trackName

\* Fault: one record more than MAX_RESULTS is taken.
FormatResultsOneMore(results) ==
  LET taken == SpliceRemoved(results, 0, MAX_RESULTS + 1)
  IN  [i \in 1..Len(taken) |-> Format(taken[i])]

\* data.results.splice(0, MAX_RESULTS).map(...): the formatted results ...
FormatResults(results) ==
  LET taken == SpliceRemoved(results, 0, MAX_RESULTS)
  IN  [i \in 1..Len(taken) |-> Format(taken[i])]

\* ... and data.results itself once splice has removed what it returned.
ResultsAfterFormat(results) == SpliceRemaining(results, 0, MAX_RESULTS)

\* Fault: the error callback empties the results.
ErrorCallbackEmpties(data) == <<>>

\* The error callback: console.error only; searchResults.data is what it was.
ErrorCallback(data) == data

\* Fault: the complete callback leaves the stored handle as it is.
CompleteKeeps(handle) == handle

\* The complete callback given by searchTrack (lines 113-115): request = null.
Complete(handle) == Null

\* Fault: searchTrack does not abort the stored request.
AbortNothing(inFlight, id) == inFlight

(***************************************************************************)
(* XMLHttpRequest.abort() as called by searchTrack (line 104) on the       *)
(* request `id`: a request that is sent and not DONE becomes DONE with     *)
(* status 0 and its readystatechange handler runs synchronously; nothing   *)
(* is delivered for it afterwards.  The requests still in flight:          *)
(***************************************************************************)
Abort(inFlight, id) == { x \in inFlight : x.id # id }

(***************************************************************************)
(* searchHistory (lines 234-332).                                          *)
(***************************************************************************)
\* Fault: no title is ever found in the list.
IsDuplicateNever(data, title) == FALSE

\* self.data.some(...)
IsDuplicate(data, title) == \E i \in 1..Len(data) : data[i].title = title

\* Fault: a duplicate add refreshes the timestamp of the entry it finds.
HistoryAddRefresh(data, title, date) ==
  IF \E i \in 1..Len(data) : data[i].title = title
    THEN [i \in 1..Len(data) |->
            IF data[i].title = title THEN [data[i] EXCEPT !.created = date] ELSE data[i]]
    ELSE Append(data, [created |-> date, title |-> title])

\* Fault: the new entry is put in front (unshift for push).
HistoryAddUnshift(data, title, date) ==
  IF \E i \in 1..Len(data) : data[i].title = title
    THEN data
    ELSE <<[created |-> date, title |-> title]>> \o data

\* self.add(title): the list it leaves.
HistoryAdd(data, title, date) ==
  IF IsDuplicate(data, title)
    THEN data
    ELSE Append(data, [created |-> date, title |-> title])

(***************************************************************************)
(* self.remove(title): forEach visits the indices 0..len-1, len being the  *)
(* length when the loop started, and skips an index the array no longer    *)
(* has; splice(index, 1) shortens the array while the loop runs.           *)
(***************************************************************************)
RECURSIVE RemoveLoop(_, _, _, _)
RemoveLoop(data, title, index, len) ==
  IF index >= len THEN data
  ELSE IF index < Len(data) /\ data[index + 1].title = title
    THEN RemoveLoop(SpliceRemaining(data, index, 1), title, index + 1, len)
    ELSE RemoveLoop(data, title, index + 1, len)

\* Fault: the entry is looked up first and splice(-1, 1) removes the last
\* entry when no entry has the title.
HistoryRemoveLastIfMissing(data, title) ==
  IF \E i \in 1..Len(data) : data[i].title = title
    THEN RemoveLoop(data, title, 0, Len(data))
    ELSE SubSeq(data, 1, Len(data) - 1)

\* self.remove(title): the list it leaves.
HistoryRemove(data, title) == RemoveLoop(data, title, 0, Len(data))

(***************************************************************************)
(* Initial state: the page after the `load` handler has run.               *)
(***************************************************************************)
Init ==
  /\ inputValue = ""
  /\ timeout = Null
  /\ timers = {}
  /\ burst = 0
  /\ request = Null
  /\ xhrs = {}
  /\ resultsData = <<>>
  /\ currentTerm = ""
  /\ response = NoResponse
  /\ historyData = <<>>
  /\ now = 0
  /\ lastEvent = Event("load", "", 0)
  /\ trace = <<>>

(***************************************************************************)
(* An `input` event with the input holding v: the debounced function       *)
(* (lines 16-23) clears the timer it scheduled before and schedules one.   *)
(***************************************************************************)
InputEvent(v) ==
  /\ burst < MaxBurst
  /\ inputValue' = v
  /\ LET cleared == ClearTimeout(timers, timeout)
         timer == SetTimeout(cleared, v, DEBOUNCE_TIME)
     IN  /\ timers' = cleared \cup {timer}
         /\ timeout' = timer.id
  /\ burst' = burst + 1
  /\ lastEvent' = Event("input", v, 0)
  /\ trace' = <<>>
  /\ response' = NoResponse
  /\ UNCHANGED <<sessionVars, resultVars, historyVars, now>>

\* TickMs milliseconds pass: every scheduled timer comes closer to being due.
Tick ==
  /\ \E t \in timers : t.remaining > 0
  /\ timers' = { [t EXCEPT !.remaining = Max(0, t.remaining - TickMs)] : t \in timers }
  /\ lastEvent' = Event("tick", "", 0)
  /\ trace' = <<>>
  /\ response' = NoResponse
  /\ UNCHANGED <<inputValue, timeout, burst, sessionVars, resultVars, historyVars, now>>

\* Fault: searchTrack waits for the stored request: it runs only when idle.
SearchTrackWhenIdle(term) ==
  /\ request = Null
  /\ xhrs' = xhrs \cup {[id |-> FreshId(xhrs), term |-> term]}
  /\ request' = FreshId(xhrs)
  /\ resultsData' = resultsData
  /\ trace' = <<"send">>

(***************************************************************************)
(* iTunesApi.searchTrack (lines 103-117), called by the change handler.    *)
(* abort() of the stored request runs that request's readystatechange      *)
(* handler with status 0: its error callback, then its complete callback.  *)
(***************************************************************************)
SearchTrack(term) ==
  LET remaining == Abort(xhrs, request)
      aborted == xhrs \ remaining
      id == FreshId(remaining)
  IN  /\ xhrs' = remaining \cup {[id |-> id, term |-> term]}
      /\ request' = id
      /\ resultsData' = IF aborted # {} THEN ErrorCallback(resultsData) ELSE resultsData
      /\ trace' = (IF request # Null THEN <<"abort">> ELSE <<>>)
                    \o (IF aborted # {} THEN <<"error", "complete">> ELSE <<>>)
                    \o <<"send">>

\* The callback given to gui.searchInput.onChange (lines 353-378).
OnChange(value) ==
  /\ currentTerm' = value
  /\ IF TooShort(value)
       THEN /\ resultsData' = <<>>
            /\ trace' = <<"empty">>
            /\ UNCHANGED sessionVars
       ELSE SearchTrack(value)

(***************************************************************************)
(* A timer that is due fires (lines 19-22): timeout = null, then the       *)
(* callback, which reads the value of the input (line 136).                *)
(***************************************************************************)
TimerFire(t) ==
  /\ t \in timers
  /\ t.remaining = 0
  /\ timers' = timers \ {t}
  /\ timeout' = Null
  /\ burst' = 0
  /\ lastEvent' = Event("timer", t.args, burst)
  /\ OnChange(inputValue)
  /\ response' = NoResponse
  /\ UNCHANGED <<inputValue, historyVars, now>>

(***************************************************************************)
(* HttpRequest.onreadystatechange (lines 61-78) for a request in flight.   *)
(***************************************************************************)
\* DONE with status 200: the success callback, then complete.
RespondSuccess(x, results) ==
  /\ x \in xhrs
  /\ xhrs' = xhrs \ {x}
  /\ resultsData' = FormatResults(results)
  /\ response' = [id |-> x.id, term |-> x.term, delivered |-> results,
                  results |-> ResultsAfterFormat(results)]
  /\ request' = Complete(request)
  /\ lastEvent' = Event("success", x.term, 0)
  /\ trace' = <<"success", "set", "complete">>
  /\ UNCHANGED <<inputValue, debounceVars, currentTerm, historyVars, now>>

\* DONE with another status: the error callback, then complete.
RespondError(x) ==
  /\ x \in xhrs
  /\ xhrs' = xhrs \ {x}
  /\ resultsData' = ErrorCallback(resultsData)
  /\ request' = Complete(request)
  /\ lastEvent' = Event("error", x.term, 0)
  /\ trace' = <<"error", "complete">>
  /\ response' = NoResponse
  /\ UNCHANGED <<inputValue, debounceVars, currentTerm, historyVars, now>>

(***************************************************************************)
(* A click on the i-th search result (lines 219-223, 388):                 *)
(* searchHistory.add(item).  set and empty end with updateList, so the     *)
(* options that can be clicked are the items of searchResults.data; add    *)
(* and remove end with updateList too, so the remove buttons are those of  *)
(* the entries of searchHistory.data.                                      *)
(***************************************************************************)
Select(i) ==
  /\ i \in 1..Len(resultsData)
  /\ historyData' = HistoryAdd(historyData, resultsData[i], now)
  /\ lastEvent' = Event("select", resultsData[i], 0)
  /\ trace' = IF IsDuplicate(historyData, resultsData[i]) THEN <<"warn">> ELSE <<"push">>
  /\ response' = NoResponse
  /\ UNCHANGED <<inputValue, debounceVars, sessionVars, resultVars, now>>

\* A click on the remove button of the i-th history entry (lines 306-308).
RemoveClick(i) ==
  /\ i \in 1..Len(historyData)
  /\ historyData' = HistoryRemove(historyData, historyData[i].title)
  /\ lastEvent' = Event("remove", historyData[i].title, 0)
  /\ trace' = <<>>
  /\ response' = NoResponse
  /\ UNCHANGED <<inputValue, debounceVars, sessionVars, resultVars, now>>

\* The wall clock read by `new Date()` (line 251) advances.
ClockAdvance ==
  /\ now < MaxNow
  /\ now' = now + 1
  /\ lastEvent' = Event("clock", "", 0)
  /\ trace' = <<>>
  /\ response' = NoResponse
  /\ UNCHANGED <<inputValue, debounceVars, sessionVars, resultVars, historyVars>>

(***************************************************************************)
(* searchHistory taken alone: its methods add (lines 244-256) and remove   *)
(* (lines 262-270) called with any title, also one the list does not       *)
(* hold.                                                                   *)
(***************************************************************************)
Add(title) ==
  /\ historyData' = HistoryAdd(historyData, title, now)
  /\ lastEvent' = Event("add", title, 0)
  /\ trace' = IF IsDuplicate(historyData, title) THEN <<"warn">> ELSE <<"push">>
  /\ response' = NoResponse
  /\ UNCHANGED <<inputValue, debounceVars, sessionVars, resultVars, now>>

Remove(title) ==
  /\ historyData' = HistoryRemove(historyData, title)
  /\ lastEvent' = Event("remove", title, 0)
  /\ trace' = <<>>
  /\ response' = NoResponse
  /\ UNCHANGED <<inputValue, debounceVars, sessionVars, resultVars, now>>

Next ==
  \/ \E v \in Terms : InputEvent(v)
  \/ Tick
  \/ \E t \in timers : TimerFire(t)
  \/ \E x \in xhrs : \E results \in Responses : RespondSuccess(x, results)
  \/ \E x \in xhrs : RespondError(x)
  \/ \E i \in 1..Len(resultsData) : Select(i)
  \/ \E i \in 1..Len(historyData) : RemoveClick(i)
  \/ ClockAdvance

Spec == Init /\ [][Next]_vars

\* The history store driven through its two methods, from the empty list.
NextHistory ==
  \/ \E title \in Titles : Add(title)
  \/ \E title \in Titles : Remove(title)
  \/ ClockAdvance

HistorySpec == Init /\ [][NextHistory]_vars

(***************************************************************************)
(* remove as a function of the list: searchHistory.data is a public field  *)
(* (line 238), and remove is written for lists that hold a title more than *)
(* once.  The list starts as any list of at most MaxEntries entries.       *)
(***************************************************************************)
EntryLists ==
  UNION { [1..n -> [created : {0}, title : Titles]] : n \in 0..MaxEntries }

InitAnyList ==
  /\ historyData \in EntryLists
  /\ inputValue = ""
  /\ timeout = Null
  /\ timers = {}
  /\ burst = 0
  /\ request = Null
  /\ xhrs = {}
  /\ resultsData = <<>>
  /\ currentTerm = ""
  /\ response = NoResponse
  /\ now = 0
  /\ lastEvent = Event("load", "", 0)
  /\ trace = <<>>

AnyListSpec == InitAnyList /\ [][NextHistory]_vars

(***************************************************************************)
(*                         Properties of the program                       *)
(***************************************************************************)

\* The step handled the timer of the debounced change handler.
ChangeHandled == lastEvent.name = "timer"

\* The step ran the success callback of a request.
SuccessHandled == response # NoResponse

(***************************************************************************)
(* C1: a response arriving for a request that was cancelled or superseded  *)
(* never changes the displayed results: whenever the success callback      *)
(* runs, the request it settles is the one iTunesApi holds as `request`,   *)
(* and its term is the term the change handler last ran with, so results   *)
(* of a stale term never overwrite the results or the emptiness of a newer *)
(* term; and nothing but the success callback and searchResults.empty      *)
(* replaces searchResults.data.                                            *)
(***************************************************************************)
C1_StaleResponseNeverShown ==
  [][resultsData' # resultsData =>
        \/ trace' = <<"empty">>
        \/ /\ SuccessHandled'
           /\ response'.id = request
           /\ response'.term = currentTerm]_vars

(***************************************************************************)
(* C2: when the change handler runs with a term shorter than the minimum   *)
(* while a request is pending, the results are emptied, the provider is    *)
(* not called and the pending request is cancelled.                        *)
(***************************************************************************)
C2_ShortTermCancelsPending ==
  [][(ChangeHandled' /\ Len(inputValue) < MIN_TERM_LENGTH /\ xhrs # {}) =>
        /\ resultsData' = <<>>
        /\ ~Contains(trace', "send")
        /\ xhrs' = {}
        /\ request' = Null]_vars

(***************************************************************************)
(* C3: at most one request is pending in every reachable state, and when   *)
(* searchTrack is called while a request is pending, the prior request is  *)
(* aborted (and has completed) before the new one is sent.                 *)
(***************************************************************************)
C3_AtMostOnePending ==
  /\ Cardinality(xhrs) <= 1
  /\ (Contains(trace, "send") /\ Contains(trace, "complete")) =>
        trace = <<"abort", "error", "complete", "send">>

\* searchTrack ran while a request was pending, and one request is pending.
C3_Witness ==
  /\ trace = <<"abort", "error", "complete", "send">>
  /\ Cardinality(xhrs) = 1
  /\ request # Null

(***************************************************************************)
(* C4: for every term that is empty or shorter than MIN_TERM_LENGTH the    *)
(* change handler does not invoke the provider (no request is created,     *)
(* the stored handle is left alone) and the displayed results are empty    *)
(* when the handler returns.                                               *)
(***************************************************************************)
C4_ShortTermNoProvider ==
  [][(ChangeHandled' /\ (inputValue = "" \/ Len(inputValue) < MIN_TERM_LENGTH)) =>
        /\ ~Contains(trace', "send")
        /\ xhrs' = xhrs
        /\ request' = request
        /\ resultsData' = <<>>]_vars

\* The handler ran with "ab" and emptied the results.
C4_Witness ==
  /\ ChangeHandled
  /\ currentTerm = "ab"
  /\ trace = <<"empty">>
  /\ resultsData = <<>>

(***************************************************************************)
(* C5: debounce collapse.  A call of the debounced function never reaches  *)
(* the callback itself and leaves exactly one timer scheduled; when the    *)
(* timer fires, the callback is called once for the N >= 1 calls made      *)
(* since it last ran, with the argument of the last of them (the event of  *)
(* the value the input holds), and no timer of these calls is left to      *)
(* call it again.                                                          *)
(***************************************************************************)
C5_DebounceCollapse ==
  [][/\ lastEvent'.name = "input" =>
          /\ trace' = <<>>
          /\ currentTerm' = currentTerm
          /\ Cardinality(timers') = 1
     /\ ChangeHandled' =>
          /\ lastEvent'.n >= 1
          /\ lastEvent'.arg = inputValue
          /\ currentTerm' = inputValue
          /\ timers' = {}]_vars

\* Three calls were answered by one call of the callback, for "abc".
C5_Witness ==
  /\ ChangeHandled
  /\ lastEvent.n = 3
  /\ lastEvent.arg = "abc"
  /\ currentTerm = "abc"
  /\ Contains(trace, "send")

(***************************************************************************)
(* C6: the error callback of a request, pending or superseded, leaves the  *)
(* displayed results as they were (and the history list too: the error is  *)
(* only logged).                                                           *)
(***************************************************************************)
C6_ErrorKeepsResults ==
  [][Contains(trace', "error") =>
        /\ resultsData' = resultsData
        /\ historyData' = historyData]_vars

\* The error callback of a superseded request ran while results were shown.
C6_Witness ==
  /\ trace = <<"abort", "error", "complete", "send">>
  /\ resultsData # <<>>

(***************************************************************************)
(* C7: the success callback displays exactly the first min(n, MAX_RESULTS) *)
(* of the n records delivered, in order, each as "artistName - trackName"; *)
(* the displayed results never hold more than MAX_RESULTS items.           *)
(***************************************************************************)
C7_FirstMaxResultsShown ==
  /\ Len(resultsData) <= MAX_RESULTS
  /\ SuccessHandled =>
       LET d == response.delivered
           k == IF Len(d) < MAX_RESULTS THEN Len(d) ELSE MAX_RESULTS
       IN  resultsData = [i \in 1..k |-> d[i].artistName \o " - " \o d[i].trackName]

\* Seven records were delivered and five are displayed.
C7_Witness ==
  /\ SuccessHandled
  /\ Len(response.delivered) = 7
  /\ resultsData = <<"A - T1", "B - T2", "A - T1", "B - T2", "A - T1">>

(***************************************************************************)
(* C8: formatting does not mutate its input: when the success callback     *)
(* has returned, data.results holds the records the provider delivered.    *)
(***************************************************************************)
C8_FormatKeepsInput == SuccessHandled => response.results = response.delivered

(***************************************************************************)
(* C9: no two entries of searchHistory.data have the same title.           *)
(***************************************************************************)
C9_HistoryTitlesUnique ==
  \A i, j \in 1..Len(historyData) :
    historyData[i].title = historyData[j].title => i = j

\* add was called for a title the list holds, and the list holds it once.
C9_Witness ==
  /\ lastEvent.name = "select"
  /\ trace = <<"warn">>
  /\ Cardinality({ i \in 1..Len(historyData) : historyData[i].title = lastEvent.arg }) = 1
  /\ Len(historyData) = 2

(***************************************************************************)
(* C10: add(title) for a title the list holds changes nothing (entries,    *)
(* their order and their created timestamps) and signals a warning.        *)
(***************************************************************************)
C10_DuplicateAddRejected ==
  [][(lastEvent'.name = "select"
        /\ \E i \in 1..Len(historyData) : historyData[i].title = lastEvent'.arg) =>
        /\ historyData' = historyData
        /\ trace' = <<"warn">>]_vars

\* A duplicate add was rejected when the clock had passed the entry's timestamp.
C10_Witness ==
  /\ lastEvent.name = "select"
  /\ trace = <<"warn">>
  /\ \E i \in 1..Len(historyData) :
        /\ historyData[i].title = lastEvent.arg
        /\ historyData[i].created < now
        /\ i < Len(historyData)

\* The entries of data whose title is not `title`, in their order.
Without(data, title) ==
  LET Keep(entry) == entry.title # title
  IN  SelectSeq(data, Keep)

\* The number of entries of data whose title is `title`.
Count(data, title) == Cardinality({ i \in 1..Len(data) : data[i].title = title })

C12_RemoveMissingIsNoOp ==
  [][(lastEvent'.name = "remove" /\ Count(historyData, lastEvent'.arg) = 0) =>
        /\ historyData' = historyData
        /\ trace' = <<>>]_vars

\* remove ran for a title that a list of two entries does not hold.
C12_Witness ==
  /\ lastEvent.name = "remove"
  /\ Count(historyData, lastEvent.arg) = 0
  /\ Len(historyData) = 2
  /\ historyData[1].created < historyData[2].created

(***************************************************************************)
(* C13: the history list is insertion-ordered: an add of a new title       *)
(* appends the entry (title, current time) at the end and leaves the       *)
(* earlier entries where they were; an add of a title the list holds       *)
(* leaves every entry where it was.                                        *)
(***************************************************************************)
C13_InsertionOrdered ==
  [][lastEvent'.name = "add" =>
        IF Count(historyData, lastEvent'.arg) = 0
          THEN historyData' =
                 Append(historyData, [created |-> now, title |-> lastEvent'.arg])
          ELSE historyData' = historyData]_vars

\* add("A - T1") was rejected as a duplicate after "B - T2" was added behind it.
C13_Witness ==
  /\ lastEvent = Event("add", "A - T1", 0)
  /\ trace = <<"warn">>
  /\ Len(historyData) = 2
  /\ historyData[1].title = "A - T1"
  /\ historyData[2].title = "B - T2"

\* The term is long enough to be searched for.
LongEnough(term) == term # "" /\ Len(term) >= MIN_TERM_LENGTH

\* The results the success callback is to display for the records d.
Displayed(d) ==
  LET k == IF Len(d) < MAX_RESULTS THEN Len(d) ELSE MAX_RESULTS
  IN  [i \in 1..k |-> d[i].artistName \o " - " \o d[i].trackName]

(***************************************************************************)
(* C14: a stale response is discarded silently: when searchTrack aborts    *)
(* the pending request, neither the success callback nor the error         *)
(* callback of that request is invoked.                                    *)
(***************************************************************************)
C14_SupersededIsSilent ==
  [][Contains(trace', "abort") =>
        /\ ~Contains(trace', "error")
        /\ ~Contains(trace', "success")]_vars

C16_HungRequestBlocksNothing ==
  xhrs # {} =>
    /\ \A t \in timers : t.remaining = 0 => ENABLED TimerFire(t)
    /\ burst < MaxBurst => \A v \in Terms : ENABLED InputEvent(v)
    /\ \A i \in 1..Len(resultsData) : ENABLED Select(i)
    /\ \A i \in 1..Len(historyData) : ENABLED RemoveClick(i)
    /\ \A x \in xhrs : \A results \in Responses : ENABLED RespondSuccess(x, results)
    /\ (ChangeHandled /\ LongEnough(currentTerm)) =>
          xhrs = {[id |-> request, term |-> currentTerm]}

\* A request for "abcd" has superseded a pending one; results and entries exist.
C16_Witness ==
  /\ ChangeHandled
  /\ currentTerm = "abcd"
  /\ trace = <<"abort", "error", "complete", "send">>
  /\ xhrs = {[id |-> request, term |-> "abcd"]}
  /\ resultsData # <<>>
  /\ historyData # <<>>

(***************************************************************************)
(* C17: the debouncer leaks no timers: at most one timer is scheduled and  *)
(* not yet fired, it is the one the closure's `timeout` names (so the next *)
(* call clears it), and none is scheduled when `timeout` is null or no     *)
(* call was made since the callback ran.                                   *)
(***************************************************************************)
C17_NoTimerLeak ==
  /\ Cardinality(timers) <= 1
  /\ \A t \in timers : t.id = timeout
  /\ timers = {} <=> timeout = Null
  /\ timers = {} <=> burst = 0

\* Three calls in one window, one timer.
C17_Witness ==
  /\ burst = 3
  /\ Cardinality(timers) = 1
  /\ \A t \in timers : t.args = inputValue /\ t.id = timeout

C19_EmptyUntilNewSearch ==
  (currentTerm = "" \/ Len(currentTerm) < MIN_TERM_LENGTH) => resultsData = <<>>

(***************************************************************************)
(* C20: on a list that holds no entry titled t, add(t) followed by         *)
(* remove(t) gives the list back (titles, order, timestamps); and          *)
(* remove(t) twice leaves the list that remove(t) once leaves.             *)
(***************************************************************************)
C20_AddRemoveRoundTrip ==
  \A t \in Titles :
    /\ Count(historyData, t) = 0 =>
         HistoryRemove(HistoryAdd(historyData, t, now), t) = historyData
    /\ HistoryRemove(HistoryRemove(historyData, t), t) = HistoryRemove(historyData, t)

\* remove ran on a list of three entries and left two.
C20_Witness ==
  /\ lastEvent.name = "remove"
  /\ Len(historyData) = 2
  /\ Count(historyData, lastEvent.arg) = 0
  /\ now > historyData[1].created

====
